---- MODULE Spec2Model ----
(***************************************************************************)
(* Model of src/config_release.py: a one-shot release pipeline             *)
(*   parse_project_metadata -> read_latest_version -> analyze_last_commit  *)
(*   -> bump_version -> generate_changelog -> amend_commit_with_changelog  *)
(*   -> tag_version                                                        *)
(* Text (branch names, commit messages, the changelog file, versions) is   *)
(* modelled as sequences of one-character strings, so that split, strip,   *)
(* startswith, the two regular expressions, int() and the f-string         *)
(* formatting are computed character by character as the code does.        *)
(***************************************************************************)
EXTENDS Integers, Sequences, FiniteSets, TLC

VARIABLES
    pc,               \* position of main(): the stage about to execute
    runs,             \* number of invocations of main() started so far
    exists,           \* changelog_file.exists()
    content,          \* text of CHANGELOG.md
    branch,           \* output of `git branch --show-current`
    commit,           \* lines of the message of the HEAD commit
    customer_name,    \* main(): customer_name
    project_name,     \* main(): project_name
    current_version,  \* main(): current_version
    lines,            \* analyze_last_commit: commit_message (list of lines)
    idx,              \* analyze_last_commit: position of the for loop
    bump_type,        \* analyze_last_commit / main(): bump_type
    new_version,      \* main(): new_version
    tags,             \* tags that exist in the repository
    failed,           \* the stage whose exception ended this run, or "none"
    trace,            \* stages this run has executed, in order, each with its text
    unit_version,     \* bump_version called on its own: first argument
    unit_bumps,       \* bump types applied so far, in order
    unit_result       \* result of the last call

vars == <<pc, runs, exists, content, branch, commit, customer_name,
          project_name, current_version, lines, idx, bump_type, new_version,
          tags, failed, trace, unit_version, unit_bumps, unit_result>>

(***************************************************************************)
(* Bounds                                                                  *)
(***************************************************************************)
MaxRuns == 2
MaxComponent == 10
MaxBumps == 2

(***************************************************************************)
(* Text helpers (Python str operations)                                    *)
(***************************************************************************)
NL == "\n"

Digits == <<"0", "1", "2", "3", "4", "5", "6", "7", "8", "9">>

IsDigit(c) == \E i \in 1..10 : Digits[i] = c

DigitVal(c) == (CHOOSE i \in 1..10 : Digits[i] = c) - 1

WordLetters ==
    {"a", "b", "c", "d", "e", "f", "g", "h", "i", "j", "k", "l", "m", "n",
     "o", "p", "q", "r", "s", "t", "u", "v", "w", "x", "y", "z",
     "A", "B", "C", "D", "E", "F", "G", "H", "I", "J", "K", "L", "M", "N",
     "O", "P", "Q", "R", "S", "T", "U", "V", "W", "X", "Y", "Z", "_"}

\* regular expression class \w
IsWord(c) == IsDigit(c) \/ c \in WordLetters

\* str.strip() whitespace
IsSpace(c) == c \in {" ", "\n", "\t", "\r"}

Tail2(s, i) == SubSeq(s, i, Len(s))

\* s.startswith(p)
StartsWith(s, p) == Len(s) >= Len(p) /\ SubSeq(s, 1, Len(p)) = p

RECURSIVE IndexFrom(_, _, _)
\* index of the first occurrence of character c in s at or after i, 0 when absent
IndexFrom(s, c, i) ==
    IF i > Len(s) THEN 0
    ELSE IF s[i] = c THEN i
    ELSE IndexFrom(s, c, i + 1)

\* s.find(c) + 1
IndexOf(s, c) == IndexFrom(s, c, 1)

RECURSIVE Split(_, _)
\* s.split(sep) for a one-character separator
Split(s, sep) ==
    LET i == IndexOf(s, sep)
    IN  IF i = 0 THEN <<s>>
        ELSE <<SubSeq(s, 1, i - 1)>> \o Split(Tail2(s, i + 1), sep)

RECURSIVE ReadLines(_)
\* f.readlines(): every line keeps its terminating newline
ReadLines(s) ==
    IF s = <<>> THEN <<>>
    ELSE LET i == IndexOf(s, NL)
         IN  IF i = 0 THEN <<s>>
             ELSE <<SubSeq(s, 1, i)>> \o ReadLines(Tail2(s, i + 1))

RECURSIVE Join(_, _)
\* sep.join(ls)
Join(ls, sep) ==
    IF Len(ls) = 0 THEN <<>>
    ELSE IF Len(ls) = 1 THEN ls[1]
    ELSE ls[1] \o sep \o Join(Tail(ls), sep)

\* s.strip()
Strip(s) ==
    IF \A i \in 1..Len(s) : IsSpace(s[i]) THEN <<>>
    ELSE LET a == CHOOSE i \in 1..Len(s) :
                      ~IsSpace(s[i]) /\ \A j \in 1..(i - 1) : IsSpace(s[j])
             b == CHOOSE i \in 1..Len(s) :
                      ~IsSpace(s[i]) /\ \A j \in (i + 1)..Len(s) : IsSpace(s[j])
         IN  SubSeq(s, a, b)

RECURSIVE ParseInt(_)
\* int(s) for a string of decimal digits
ParseInt(s) ==
    IF Len(s) = 0 THEN 0
    ELSE ParseInt(SubSeq(s, 1, Len(s) - 1)) * 10 + DigitVal(s[Len(s)])

RECURSIVE FormatInt(_)
\* f"{n}" for a non-negative int
FormatInt(n) ==
    IF n < 10 THEN <<Digits[n + 1]>>
    ELSE FormatInt(n \div 10) \o <<Digits[(n % 10) + 1]>>

AllDigits(s) == Len(s) > 0 /\ \A i \in 1..Len(s) : IsDigit(s[i])

RECURSIVE DigitRun(_, _)
\* length of the longest run of digits of s that starts at position i (greedy \d+)
DigitRun(s, i) ==
    IF i > Len(s) \/ ~IsDigit(s[i]) THEN 0 ELSE 1 + DigitRun(s, i + 1)

RECURSIVE WordRun(_, _)
\* length of the longest run of word characters of s that starts at i (greedy \w+)
WordRun(s, i) ==
    IF i > Len(s) \/ ~IsWord(s[i]) THEN 0 ELSE 1 + WordRun(s, i + 1)

(***************************************************************************)
(* bump_version                                                            *)
(***************************************************************************)
Ok(v) == [err |-> "none", value |-> v]

Raise(e) == [err |-> e, value |-> <<>>]

FormatVersion(major, minor, patch) ==
    FormatInt(major) \o <<".">> \o FormatInt(minor) \o <<".">> \o FormatInt(patch)

bump_version_minor_keeps_patch(version, bump) ==
    LET parts == Split(version, ".")
    IN  IF Len(parts) # 3 \/ \E i \in 1..Len(parts) : ~AllDigits(parts[i])
        THEN Raise("ValueError")
        ELSE LET major == ParseInt(parts[1])
                 minor == ParseInt(parts[2])
                 patch == ParseInt(parts[3])
             IN  CASE bump = "major" -> Ok(FormatVersion(major + 1, 0, 0))
                   [] bump = "minor" -> Ok(FormatVersion(major, minor + 1, patch))
                   [] bump = "bugfix" -> Ok(FormatVersion(major, minor, patch + 1))
                   [] OTHER -> Raise("Unknown bump type")

bump_version_major_keeps_rest(version, bump) ==
    LET parts == Split(version, ".")
    IN  IF Len(parts) # 3 \/ \E i \in 1..Len(parts) : ~AllDigits(parts[i])
        THEN Raise("ValueError")
        ELSE LET major == ParseInt(parts[1])
                 minor == ParseInt(parts[2])
                 patch == ParseInt(parts[3])
             IN  CASE bump = "major" -> Ok(FormatVersion(major + 1, minor, patch))
                   [] bump = "minor" -> Ok(FormatVersion(major, minor + 1, 0))
                   [] bump = "bugfix" -> Ok(FormatVersion(major, minor, patch + 1))
                   [] OTHER -> Raise("Unknown bump type")

\* bump_version(version, bump_type): the new version, or the exception raised
bump_version(version, bump) ==
    LET parts == Split(version, ".")
    IN  IF Len(parts) # 3 \/ \E i \in 1..Len(parts) : ~AllDigits(parts[i])
        THEN Raise("ValueError")
        ELSE LET major == ParseInt(parts[1])
                 minor == ParseInt(parts[2])
                 patch == ParseInt(parts[3])
             IN  CASE bump = "major" -> Ok(FormatVersion(major + 1, 0, 0))
                   [] bump = "minor" -> Ok(FormatVersion(major, minor + 1, 0))
                   [] bump = "bugfix" -> Ok(FormatVersion(major, minor, patch + 1))
                   [] OTHER -> Raise("Unknown bump type")

(***************************************************************************)
(* parse_project_metadata                                                  *)
(***************************************************************************)
\* the literal tail of BRANCH_PATTERN
RELEASE == <<"/", "r", "e", "l", "e", "a", "s", "e">>

\* BRANCH_PATTERN matches s starting at position i
BranchMatchAt(s, i) ==
    LET r1 == WordRun(s, i)
        j  == i + r1
        r2 == WordRun(s, j + 1)
        k  == j + 1 + r2
    IN  /\ r1 > 0
        /\ j <= Len(s)
        /\ s[j] = "/"
        /\ r2 > 0
        /\ StartsWith(Tail2(s, k), RELEASE)

\* re.search(BRANCH_PATTERN, branch_name): the leftmost match and its groups
BranchSearch(s) ==
    IF \E i \in 1..Len(s) : BranchMatchAt(s, i)
    THEN LET i  == CHOOSE a \in 1..Len(s) :
                       BranchMatchAt(s, a) /\ \A b \in 1..(a - 1) : ~BranchMatchAt(s, b)
             r1 == WordRun(s, i)
             r2 == WordRun(s, i + r1 + 1)
         IN  [err |-> "none",
              customer_name |-> SubSeq(s, i, i + r1 - 1),
              project_name |-> SubSeq(s, i + r1 + 1, i + r1 + r2)]
    ELSE [err |-> "Branch name does not match the expected pattern",
          customer_name |-> <<>>, project_name |-> <<>>]

(***************************************************************************)
(* read_latest_version                                                     *)
(***************************************************************************)
INIT_VERSION == <<"0", ".", "0", ".", "0">>

\* the header stub written when CHANGELOG.md does not exist
STUB == <<"#", " ", "C", "h", "a", "n", "g", "e", "l", "o", "g", "\n", "\n">>

\* the literal head of VERSION_PATTERN and of the heading generate_changelog writes
HEADING == <<"#", "#", " ", "v">>

\* re.match(VERSION_PATTERN, line): whether it matches, and group "version"
VersionMatch(line) ==
    LET a  == Len(HEADING) + 1
        r1 == DigitRun(line, a)
        b  == a + r1 + 1
        r2 == DigitRun(line, b)
        c  == b + r2 + 1
        r3 == DigitRun(line, c)
    IN  IF /\ StartsWith(line, HEADING)
           /\ r1 > 0
           /\ a + r1 <= Len(line)
           /\ line[a + r1] = "."
           /\ r2 > 0
           /\ b + r2 <= Len(line)
           /\ line[b + r2] = "."
           /\ r3 > 0
        THEN [matched |-> TRUE, version |-> SubSeq(line, a, c + r3 - 1)]
        ELSE [matched |-> FALSE, version |-> <<>>]

RECURSIVE ScanVersions(_, _, _)
\* the for loop of read_latest_version from line i on: every match overwrites
ScanVersions(ls, i, version) ==
    IF i > Len(ls) THEN version
    ELSE LET m == VersionMatch(ls[i])
         IN  ScanVersions(ls, i + 1, IF m.matched THEN m.version ELSE version)

RECURSIVE ScanVersionsFirst(_, _, _)
ScanVersionsFirst(ls, i, version) ==
    IF i > Len(ls) THEN version
    ELSE LET m == VersionMatch(ls[i])
         IN  IF m.matched THEN m.version ELSE ScanVersionsFirst(ls, i + 1, version)

LatestVersion_first_match(text) == ScanVersionsFirst(ReadLines(text), 1, INIT_VERSION)

\* the version read_latest_version returns for a file holding text
LatestVersion(text) == ScanVersions(ReadLines(text), 1, INIT_VERSION)

(***************************************************************************)
(* analyze_last_commit                                                     *)
(***************************************************************************)
MAJOR == <<"M", "a", "j", "o", "r">>

MINOR == <<"M", "i", "n", "o", "r">>

BUGFIX == <<"B", "u", "g", "f", "i", "x">>

\* stdout of `git log --pretty=%B -1`: the message, its final newline, and the
\* newline with which git terminates every entry of a log
GitLogB(message) == Join(message, <<NL>>) \o <<NL>> \o <<NL>>

\* stdout of `git log --pretty=format:%B -1`: no terminator after the last entry
GitLogFormatB(message) == Join(message, <<NL>>) \o <<NL>>

ScanStep_major_continues(message, bump) ==
    IF StartsWith(message, MAJOR) THEN [kind |-> "continue", bump_type |-> "major"]
    ELSE IF StartsWith(message, MINOR) THEN [kind |-> "continue", bump_type |-> "minor"]
    ELSE IF StartsWith(message, BUGFIX) THEN [kind |-> "continue", bump_type |-> "bugfix"]
    ELSE [kind |-> "raise", bump_type |-> bump]

\* one iteration of the for loop of analyze_last_commit on line `message`
ScanStep(message, bump) ==
    IF StartsWith(message, MAJOR) THEN [kind |-> "return", bump_type |-> "major"]
    ELSE IF StartsWith(message, MINOR) THEN [kind |-> "continue", bump_type |-> "minor"]
    ELSE IF StartsWith(message, BUGFIX) THEN [kind |-> "continue", bump_type |-> "bugfix"]
    ELSE [kind |-> "raise", bump_type |-> bump]

(***************************************************************************)
(* generate_changelog, tag_version                                         *)
(***************************************************************************)
\* the three f.write calls of generate_changelog
Section(version, timestamp, description) ==
    HEADING \o version \o <<" ", "-", " ">> \o timestamp
        \o <<" ", "(", "U", "T", "C", ")", "\n">>
        \o description \o <<"\n", "\n">>

WriteChangelog_truncating(old, version, timestamp, description) ==
    Section(version, timestamp, description)

\* the file after generate_changelog: opened in mode "a"
WriteChangelog(old, version, timestamp, description) ==
    old \o Section(version, timestamp, description)

TagName_without_v(prefix, version) == prefix \o <<"/">> \o version

\* tag_name of tag_version
TagName(prefix, version) == prefix \o <<"/", "v">> \o version

\* prefix of main()
Prefix(customer, project) == customer \o <<"/">> \o project

(***************************************************************************)
(* The environment: branch names, commit messages, clock readings and the  *)
(* changelog the repository starts with                                    *)
(***************************************************************************)
Branches ==
    { <<"a", "c", "m", "e", "/", "w", "i", "d", "g", "e", "t", "s", "/",
        "r", "e", "l", "e", "a", "s", "e">>,
      <<"m", "a", "i", "n">>,
      <<"x", "/", "a", "c", "m", "e", "/", "w", "i", "d", "g", "e", "t", "s", "/",
        "r", "e", "l", "e", "a", "s", "e", "/", "v", "2">>,
      <<"m", "y", "-", "c", "o", "/", "a", "p", "p", "/",
        "r", "e", "l", "e", "a", "s", "e">> }

\* commit messages, each a sequence of lines
Commits ==
    { << <<"M", "a", "j", "o", "r", ":", " ", "x">>, <<>>, <<"w", "h", "y", " ">> >>,
      << <<"M", "i", "n", "o", "r", ":", " ", "a">>,
         <<"B", "u", "g", "f", "i", "x", ":", " ", "b">> >>,
      << <<"B", "u", "g", "f", "i", "x", ":", " ", "b">>,
         <<"M", "i", "n", "o", "r", ":", " ", "a">>,
         <<"M", "a", "j", "o", "r", ":", " ", "c">> >>,
      << <<"M", "a", "j", "o", "r">>, <<"#", "#", " ", "v", "0", ".", "0", ".", "1">> >>,
      << <<"f", "i", "x", ":", " ", "y">> >> }

\* datetime.now().strftime("%b %d, %Y, %I:%M:%S %p")
Timestamps ==
    { <<"N", "o", "v", " ", "0", "4", ",", " ", "2", "0", "2", "6", ",", " ",
        "0", "5", ":", "3", "8", ":", "0", "5", " ", "A", "M">>,
      <<"J", "a", "n", " ", "0", "1", ",", " ", "2", "0", "2", "7", ",", " ",
        "1", "2", ":", "0", "0", ":", "0", "0", " ", "P", "M">> }

\* CHANGELOG.md before the first run: absent, empty, one release, several headings
InitialChangelogs ==
    { [exists |-> FALSE, content |-> <<>>],
      [exists |-> TRUE, content |-> <<>>],
      [exists |-> TRUE, content |->
          STUB \o <<"#", "#", " ", "v", "9", ".", "9", ".", "9", " ", "-", " ",
                    "o", "l", "d", "\n", "M", "a", "j", "o", "r", ":", " ", "x",
                    "\n", "\n">>],
      [exists |-> TRUE, content |->
          <<"#", "#", " ", "v", "2", ".", "0", ".", "0", "\n",
            " ", "#", "#", " ", "v", "3", ".", "0", ".", "0", "\n",
            "#", "#", " ", "v", "1", ".", "5", "\n",
            "#", "#", " ", "v", "1", ".", "9", ".", "9", "r", "c", "\n">>] }

\* the stages of main(), in the order of its calls
Stages == <<"metadata", "read", "classify", "bump", "changelog", "amend", "tag">>

Event(op, arg) == [op |-> op, arg |-> arg]

(***************************************************************************)
(* Initial state                                                           *)
(***************************************************************************)
InitPipeline ==
    /\ pc = "idle"
    /\ runs = 0
    /\ branch = <<>>
    /\ commit = <<>>
    /\ customer_name = <<>>
    /\ project_name = <<>>
    /\ current_version = <<>>
    /\ lines = <<>>
    /\ idx = 0
    /\ bump_type = "unset"
    /\ new_version = <<>>
    /\ tags = {}
    /\ failed = "none"
    /\ trace = <<>>

InitUnit ==
    /\ unit_version = INIT_VERSION
    /\ unit_bumps = <<>>
    /\ unit_result = Ok(INIT_VERSION)

Init ==
    /\ InitPipeline
    /\ InitUnit
    /\ \E f \in InitialChangelogs : exists = f.exists /\ content = f.content

unitVars == <<unit_version, unit_bumps, unit_result>>

(***************************************************************************)
(* main(): one action per stage                                            *)
(***************************************************************************)
\* an exception leaves main(): nothing catches it
Abort(stage) ==
    /\ pc' = "aborted"
    /\ failed' = stage

\* main() is invoked on a repository whose branch and HEAD commit are given
main ==
    /\ pc \in {"idle", "done", "aborted"}
    /\ runs < MaxRuns
    /\ runs' = runs + 1
    /\ \E b \in Branches : branch' = b
    /\ \E m \in Commits : commit' = m
    /\ pc' = "metadata"
    /\ failed' = "none"
    /\ trace' = <<>>
    /\ customer_name' = <<>>
    /\ project_name' = <<>>
    /\ current_version' = <<>>
    /\ lines' = <<>>
    /\ idx' = 0
    /\ bump_type' = "unset"
    /\ new_version' = <<>>
    /\ UNCHANGED <<exists, content, tags, unitVars>>

parse_project_metadata ==
    /\ pc = "metadata"
    /\ trace' = Append(trace, Event("metadata", branch))
    /\ \E ok \in BOOLEAN :
         LET m == BranchSearch(branch)
         IN  IF ok /\ m.err = "none"
             THEN /\ customer_name' = m.customer_name
                  /\ project_name' = m.project_name
                  /\ pc' = "read"
                  /\ UNCHANGED failed
             ELSE /\ Abort("metadata")
                  /\ UNCHANGED <<customer_name, project_name>>
    /\ UNCHANGED <<runs, exists, content, branch, commit, current_version, lines,
                   idx, bump_type, new_version, tags, unitVars>>

read_latest_version ==
    /\ pc = "read"
    /\ exists' = TRUE
    /\ content' = IF exists THEN content ELSE STUB
    /\ current_version' = LatestVersion(content')
    /\ trace' = Append(trace, Event("read", content'))
    /\ pc' = "classify"
    /\ UNCHANGED <<runs, branch, commit, customer_name, project_name, lines, idx,
                   bump_type, new_version, tags, failed, unitVars>>

\* the subprocess call and the split of analyze_last_commit
analyze_last_commit ==
    /\ pc = "classify"
    /\ trace' = Append(trace, Event("classify", <<>>))
    /\ \E ok \in BOOLEAN :
         IF ok
         THEN /\ lines' = Split(GitLogB(commit), NL)
              /\ bump_type' = "bugfix"
              /\ idx' = 1
              /\ pc' = "scan"
              /\ UNCHANGED failed
         ELSE /\ Abort("classify")
              /\ UNCHANGED <<lines, bump_type, idx>>
    /\ UNCHANGED <<runs, exists, content, branch, commit, customer_name,
                   project_name, current_version, new_version, tags, unitVars>>

\* the for loop of analyze_last_commit: one line, or the return after the last
analyze_last_commit_loop ==
    /\ pc = "scan"
    /\ IF idx > Len(lines)
       THEN /\ pc' = "bump"
            /\ UNCHANGED <<bump_type, idx, failed>>
       ELSE LET s == ScanStep(lines[idx], bump_type)
            IN  CASE s.kind = "return" ->
                       /\ bump_type' = s.bump_type
                       /\ pc' = "bump"
                       /\ UNCHANGED <<idx, failed>>
                  [] s.kind = "continue" ->
                       /\ bump_type' = s.bump_type
                       /\ idx' = idx + 1
                       /\ UNCHANGED <<pc, failed>>
                  [] OTHER ->
                       /\ Abort("classify")
                       /\ UNCHANGED <<bump_type, idx>>
    /\ UNCHANGED <<runs, exists, content, branch, commit, customer_name,
                   project_name, current_version, lines, new_version, tags, trace,
                   unitVars>>

\* new_version = bump_version(current_version, bump_type)
main_bump_version ==
    /\ pc = "bump"
    /\ trace' = Append(trace, Event("bump", <<>>))
    /\ LET r == bump_version(current_version, bump_type)
       IN  IF r.err = "none"
           THEN /\ new_version' = r.value
                /\ pc' = "changelog"
                /\ UNCHANGED failed
           ELSE /\ Abort("bump")
                /\ UNCHANGED new_version
    /\ UNCHANGED <<runs, exists, content, branch, commit, customer_name,
                   project_name, current_version, lines, idx, bump_type, tags,
                   unitVars>>

generate_changelog ==
    /\ pc = "changelog"
    /\ \E ok \in BOOLEAN, timestamp \in Timestamps :
         IF ok
         THEN LET change_description == Strip(GitLogFormatB(commit))
              IN  /\ content' = WriteChangelog(content, new_version, timestamp,
                                               change_description)
                  /\ trace' = Append(trace,
                        Event("changelog",
                              Section(new_version, timestamp, change_description)))
                  /\ exists' = TRUE
                  /\ pc' = "amend"
                  /\ UNCHANGED failed
         ELSE /\ Abort("changelog")
              /\ trace' = Append(trace, Event("changelog", <<>>))
              /\ UNCHANGED <<exists, content>>
    /\ UNCHANGED <<runs, branch, commit, customer_name, project_name,
                   current_version, lines, idx, bump_type, new_version, tags,
                   unitVars>>

amend_commit_with_changelog_continues ==
    /\ pc = "amend"
    /\ trace' = Append(trace, Event("amend", <<>>))
    /\ \E ok \in BOOLEAN :
         IF ok
         THEN /\ pc' = "tag"
              /\ UNCHANGED failed
         ELSE /\ pc' = "tag"
              /\ failed' = "amend"
    /\ UNCHANGED <<runs, exists, content, branch, commit, customer_name,
                   project_name, current_version, lines, idx, bump_type,
                   new_version, tags, unitVars>>

\* git add, two git log calls and git commit --amend: any of them may fail;
\* the amended commit keeps its message
amend_commit_with_changelog ==
    /\ pc = "amend"
    /\ trace' = Append(trace, Event("amend", <<>>))
    /\ \E ok \in BOOLEAN :
         IF ok
         THEN /\ pc' = "tag"
              /\ UNCHANGED failed
         ELSE Abort("amend")
    /\ UNCHANGED <<runs, exists, content, branch, commit, customer_name,
                   project_name, current_version, lines, idx, bump_type,
                   new_version, tags, unitVars>>

\* git tag fails when the tag exists already, or for any other reason
tag_version ==
    /\ pc = "tag"
    /\ LET tag_name == TagName(Prefix(customer_name, project_name), new_version)
       IN  /\ trace' = Append(trace, Event("tag", tag_name))
           /\ \E ok \in BOOLEAN :
                IF ok /\ tag_name \notin tags
                THEN /\ tags' = tags \cup {tag_name}
                     /\ pc' = "done"
                     /\ UNCHANGED failed
                ELSE /\ Abort("tag")
                     /\ UNCHANGED tags
    /\ UNCHANGED <<runs, exists, content, branch, commit, customer_name,
                   project_name, current_version, lines, idx, bump_type,
                   new_version, unitVars>>

Next ==
    \/ main
    \/ parse_project_metadata
    \/ read_latest_version
    \/ analyze_last_commit
    \/ analyze_last_commit_loop
    \/ main_bump_version
    \/ generate_changelog
    \/ amend_commit_with_changelog
    \/ tag_version

Spec == Init /\ [][Next]_vars

(***************************************************************************)
(* bump_version on its own: every version up to MaxComponent in each       *)
(* component, every bump type, up to MaxBumps successive calls             *)
(***************************************************************************)
BumpInputs == {"major", "minor", "bugfix", "patch", "Major", ""}

VersionInputs ==
    { FormatVersion(a, b, c) : a \in 0..MaxComponent, b \in 0..MaxComponent,
                               c \in 0..MaxComponent }

InitBump ==
    /\ InitPipeline
    /\ exists = FALSE
    /\ content = <<>>
    /\ unit_version \in VersionInputs
    /\ unit_bumps = <<>>
    /\ unit_result = Ok(unit_version)

\* unit_result = bump_version(unit_result, t)
BumpCall ==
    /\ Len(unit_bumps) < MaxBumps
    /\ unit_result.err = "none"
    /\ \E t \in BumpInputs :
         /\ unit_result' = bump_version(unit_result.value, t)
         /\ unit_bumps' = Append(unit_bumps, t)
    /\ UNCHANGED <<pc, runs, exists, content, branch, commit, customer_name,
                   project_name, current_version, lines, idx, bump_type,
                   new_version, tags, failed, trace, unit_version>>

NextBump == BumpCall

SpecBump == InitBump /\ [][NextBump]_vars

(***************************************************************************)
(* Properties                                                              *)
(***************************************************************************)
IsPrefix(p, s) == Len(p) <= Len(s) /\ \A i \in 1..Len(p) : p[i] = s[i]

IsSuffix(p, s) ==
    Len(p) <= Len(s) /\ \A i \in 1..Len(p) : p[i] = s[Len(s) - Len(p) + i]

\* (major, minor, patch) of a serialized version
VersionTriple(version) ==
    LET parts == Split(version, ".")
    IN  <<ParseInt(parts[1]), ParseInt(parts[2]), ParseInt(parts[3])>>

\* the increment rules of semantic versioning, on triples
NextTriple(v, kind) ==
    CASE kind = "major" -> <<v[1] + 1, 0, 0>>
      [] kind = "minor" -> <<v[1], v[2] + 1, 0>>
      [] OTHER -> <<v[1], v[2], v[3] + 1>>

Serialized(v) == FormatVersion(v[1], v[2], v[3])

LexGreater(a, b) ==
    \/ a[1] > b[1]
    \/ a[1] = b[1] /\ a[2] > b[2]
    \/ a[1] = b[1] /\ a[2] = b[2] /\ a[3] > b[3]

V_0_0_0 == <<"0", ".", "0", ".", "0">>

V_0_0_1 == <<"0", ".", "0", ".", "1">>

V_1_2_3 == <<"1", ".", "2", ".", "3">>

V_1_3_0 == <<"1", ".", "3", ".", "0">>

V_9_9_9 == <<"9", ".", "9", ".", "9">>

V_10_0_0 == <<"1", "0", ".", "0", ".", "0">>

V_10_0_1 == <<"1", "0", ".", "0", ".", "1">>

V_1_9_9 == <<"1", ".", "9", ".", "9">>

\* the outcome of one call bump_version(unit_version, t) when the third bump
\* type is called `third`
BumpContract(third) ==
    Len(unit_bumps) = 1 =>
        LET t == unit_bumps[1]
            v == VersionTriple(unit_version)
        IN  IF t \in {"major", "minor", third}
            THEN unit_result = Ok(Serialized(NextTriple(v, IF t = third THEN "patch" ELSE t)))
            ELSE unit_result.err = "Unknown bump type"

BumpExamples(third) ==
    /\ unit_version = V_1_2_3 /\ unit_bumps = <<"minor">> => unit_result = Ok(V_1_3_0)
    /\ unit_version = V_0_0_0 /\ unit_bumps = <<third>> => unit_result = Ok(V_0_0_1)
    /\ unit_version = V_9_9_9 /\ unit_bumps = <<"major">> => unit_result = Ok(V_10_0_0)

\* C1 as stated: one call of bump_version gives (M+1,0,0) for major, (M,N+1,0)
\* for minor and (M,N,P+1) for patch, serialized, with the three examples of the
\* specification, and raises the unknown-bump-type error for every other type.
C1_AsStated == BumpContract("patch") /\ BumpExamples("patch")

\* C1 amended: the same with the third bump type named bugfix, as the code and
\* its classifier name it; patch is one of the types that raise.
C1_BumpVersion == BumpContract("bugfix") /\ BumpExamples("bugfix")

C1_Witness ==
    unit_version = V_9_9_9 /\ unit_bumps = <<"major">> /\ unit_result = Ok(V_10_0_0)

\* the algebraic law and the monotonicity of one bump, third type named `third`
BumpLaws(third) ==
    LET v == VersionTriple(unit_version)
    IN  /\ unit_bumps = <<"major", third>> =>
               unit_result = Ok(Serialized(<<v[1] + 1, 0, 1>>))
        /\ Len(unit_bumps) = 1 /\ unit_bumps[1] \in {"major", "minor", third} =>
               /\ unit_result.err = "none"
               /\ LET r == VersionTriple(unit_result.value)
                  IN  /\ r[1] >= v[1]
                      /\ (r[1] = v[1] => r[2] >= v[2])
                      /\ LexGreater(r, v)

\* C9 as stated: bump(bump(v, major), patch) = (M+1, 0, 1), and one bump of any
\* type (major, minor, patch) never decreases a higher-order component and gives
\* a strictly greater version.
C9_AsStated == BumpLaws("patch")

\* C9 amended: the same laws with the third bump type named bugfix.
C9_BumpLaws == BumpLaws("bugfix")

C9_Witness ==
    /\ unit_version = V_9_9_9
    /\ unit_bumps = <<"major", "bugfix">>
    /\ unit_result = Ok(V_10_0_1)

Tagged(line) ==
    StartsWith(line, MAJOR) \/ StartsWith(line, MINOR) \/ StartsWith(line, BUGFIX)

\* analyze_last_commit has returned / has raised from its loop
Classified == pc = "bump"

ClassifyRaised == pc = "aborted" /\ failed = "classify" /\ lines # <<>>

\* C2 as stated: analyze_last_commit returns a bump type only when every line
\* of the git output begins with Major, Minor or Bugfix (it fails for every
\* message with a line that does not).
C2_AsStated == Classified => \A i \in 1..Len(lines) : Tagged(lines[i])

\* C2 amended: the scan stops at the first line that begins with Major and
\* returns major without looking at the later lines; it fails exactly when a
\* line beginning with none of the three tags comes before any line beginning
\* with Major; a line it has scanned is never defaulted to a bump type.
C2_StrictUpToMajor ==
    /\ Classified =>
          \/ \E k \in 1..Len(lines) :
                /\ StartsWith(lines[k], MAJOR)
                /\ \A j \in 1..(k - 1) : Tagged(lines[j])
                /\ bump_type = "major"
          \/ /\ \A j \in 1..Len(lines) : Tagged(lines[j]) /\ ~StartsWith(lines[j], MAJOR)
             /\ bump_type \in {"minor", "bugfix"}
    /\ ClassifyRaised =>
          \E k \in 1..Len(lines) :
                /\ ~Tagged(lines[k])
                /\ \A j \in 1..(k - 1) : Tagged(lines[j]) /\ ~StartsWith(lines[j], MAJOR)

C2_Witness ==
    /\ Classified
    /\ bump_type = "major"
    /\ Len(commit) = 3
    /\ \E i \in 1..Len(commit) : ~Tagged(commit[i])

Rank(kind) ==
    CASE kind = "major" -> 3
      [] kind = "minor" -> 2
      [] OTHER -> 1

\* C3 as stated: during the scan of analyze_last_commit a later line with a
\* lower-precedence tag never downgrades the bump type found on an earlier line
\* (major over minor over bugfix), so the highest-precedence tag present wins.
C3_AsStated ==
    [][pc = "scan" /\ pc' = "scan" => Rank(bump_type') >= Rank(bump_type)]_vars

\* the version a heading line carries: `## v`, then digits.digits.digits taken
\* as far as the digits go
HeadingVersions(line) ==
    IF ~StartsWith(line, HEADING) THEN {}
    ELSE LET ends == { k \in (Len(HEADING) + 1)..Len(line) :
                          IsDigit(line[k]) /\ (k < Len(line) => ~IsDigit(line[k + 1])) }
         IN  { v \in { SubSeq(line, Len(HEADING) + 1, k) : k \in ends } :
                 LET parts == Split(v, ".")
                 IN  Len(parts) = 3 /\ \A i \in 1..3 : AllDigits(parts[i]) }

\* the version of the last heading line of a text, 0.0.0 when it has none
LastHeading(text) ==
    LET ls == Split(text, NL)
        H  == { i \in 1..Len(ls) : HeadingVersions(ls[i]) # {} }
    IN  IF H = {} THEN INIT_VERSION
        ELSE LET last == CHOOSE i \in H : \A j \in H : j <= i
             IN  CHOOSE v \in HeadingVersions(ls[last]) : TRUE

\* C4: read_latest_version returns the version of the last line, top to bottom,
\* that starts with the heading `## v<major>.<minor>.<patch>`, and 0.0.0 when
\* the changelog has no such line, is empty or does not exist; a changelog that
\* does not exist is created holding only the header stub, an existing one is
\* left as it is, and the call does not fail.
C4_ReadLatestVersion ==
    [][pc = "read" =>
          /\ pc' = "classify"
          /\ failed' = "none"
          /\ exists'
          /\ content' = (IF exists THEN content ELSE STUB)
          /\ current_version' = LastHeading(IF exists THEN content ELSE <<>>)]_vars

C4_Witness ==
    /\ pc = "classify"
    /\ runs = 1
    /\ current_version = V_1_9_9
    /\ \E i \in 1..Len(content) :
          StartsWith(Tail2(content, i), HEADING \o <<"3", ".", "0", ".", "0">>)

\* C5: the changelog is append-only: every step, in successful and in aborted
\* runs alike, leaves the previous content as a prefix of the new content; only
\* generate_changelog (and the creation of a missing file) changes the file, and
\* each generate_changelog call adds exactly one section: the heading
\* `## v<version> - <timestamp>` (the clock reading is labelled ` (UTC)`), the
\* stripped commit message, and a blank-line separator.
C5_AppendOnly ==
    [][/\ IsPrefix(content, content')
       /\ (exists => exists')
       /\ (content' # content => pc = "changelog" \/ (pc = "read" /\ ~exists))
       /\ (pc = "changelog" /\ pc' = "amend" =>
             \E ts \in Timestamps :
                content' = content \o <<"#", "#", " ", "v">> \o new_version
                              \o <<" ", "-", " ">> \o ts
                              \o <<" ", "(", "U", "T", "C", ")", "\n">>
                              \o Strip(Join(commit, <<"\n">>)) \o <<"\n", "\n">>)]_vars

C5_Witness ==
    /\ pc = "amend"
    /\ runs = 2
    /\ Len(trace) = 5
    /\ content = trace[2].arg \o trace[5].arg
    /\ Len(trace[2].arg) > Len(STUB) + Len(trace[5].arg)

TraceOps == [i \in 1..Len(trace) |-> trace[i].op]

\* C6: a run that completes has executed every stage once, in order (so one
\* changelog append, then the amend, then one tag request); the section appended
\* is headed with bump(v, t) for the version v read and the bump type t
\* classified, and the tag requested is <customer>/<project>/v<bump(v, t)>.
C6_CompletedRun ==
    pc = "done" =>
        LET released == Serialized(NextTriple(VersionTriple(current_version),
                                               IF bump_type = "bugfix" THEN "patch"
                                               ELSE bump_type))
        IN  /\ TraceOps = Stages
            /\ failed = "none"
            /\ bump_type \in {"major", "minor", "bugfix"}
            /\ current_version = LastHeading(trace[2].arg)
            /\ content = trace[2].arg \o trace[5].arg
            /\ IsPrefix(<<"#", "#", " ", "v">> \o released \o <<" ", "-", " ">>,
                        trace[5].arg)
            /\ trace[7].arg = customer_name \o <<"/">> \o project_name
                                 \o <<"/", "v">> \o released
            /\ trace[7].arg \in tags

C6_Witness ==
    /\ pc = "done"
    /\ current_version = V_9_9_9
    /\ new_version = V_10_0_0
    /\ customer_name = <<"a", "c", "m", "e">>

\* C7: a failing stage ends the run at once: the stages executed are those up
\* to the failing one, each once, nothing runs after it and nothing is undone;
\* when the amend fails, the section appended in that run is still in the file
\* and no tag has been requested.
C7_FailFast ==
    failed # "none" =>
        /\ pc = "aborted"
        /\ \E n \in 1..Len(Stages) :
              /\ Stages[n] = failed
              /\ TraceOps = SubSeq(Stages, 1, n)
        /\ (Len(trace) >= 2 => IsPrefix(trace[2].arg, content))
        /\ (failed \in {"amend", "tag"} => content = trace[2].arg \o trace[5].arg)
        /\ (failed = "amend" =>
              /\ trace[5].arg # <<>>
              /\ \A i \in 1..Len(trace) : trace[i].op # "tag")

C7_Witness ==
    /\ pc = "aborted"
    /\ failed = "amend"
    /\ IsSuffix(trace[5].arg, content)
    /\ Len(trace[5].arg) > 0

\* C8 as stated: parse_project_metadata returns (customer, project) exactly
\* when the branch name is <customer>/<project>/release, and raises for every
\* other branch name.
C8_AsStated ==
    pc = "read" => branch = customer_name \o <<"/">> \o project_name \o RELEASE

\* C10 as stated: after a run that completes, read_latest_version on the
\* updated changelog returns the version that run released.
C10_AsStated == pc = "done" => LatestVersion(content) = new_version

====
